---------------------------- MODULE Spec2Model ----------------------------
(***************************************************************************)
(* Model of the RAG knowledge assistant's core:                            *)
(*   - SimpleDocumentProcessor (src/src/document_processor.py): the        *)
(*     three-pass chunker (paragraphs, sentences, forced windows);         *)
(*   - MilvusVectorDB (src/src/vector_db.py): the in-memory store, its     *)
(*     on-disk snapshot and the cosine-similarity search.                  *)
(*                                                                         *)
(* Strings are sequences of one-character strings, so that len(), slices,  *)
(* strip() and the splits are computed as Python computes them.            *)
(***************************************************************************)
EXTENDS Integers, Sequences, FiniteSets, TLC

VARIABLES
    chunk_size,   \* SimpleDocumentProcessor.chunk_size
    overlap,      \* SimpleDocumentProcessor.overlap
    text,         \* the text handed to smart_chunk_text
    source,       \* the source path handed to smart_chunk_text
    produced,     \* what smart_chunk_text returned (NotRun before the call)
    chunks,       \* MilvusVectorDB.chunks
    embeddings,   \* MilvusVectorDB.embeddings
    metadata,     \* MilvusVectorDB.metadata
    disk,         \* the file at storage_path
    call,         \* the last call made on the store: its arguments and outcome
    faults        \* how many more operations of the file system may fail

vars == <<chunk_size, overlap, text, source, produced,
          chunks, embeddings, metadata, disk, call, faults>>

chunkerVars == <<chunk_size, overlap, text, source, produced>>
storeVars == <<chunks, embeddings, metadata, disk, call, faults>>

(***************************************************************************)
(* Bounds of the model.                                                    *)
(***************************************************************************)
MaxTextLen == 8       \* longest text chunked
MaxChunkSize == 3     \* largest chunk_size (and overlap) a processor is given
MaxEntries == 2       \* most entries the store is grown to
MaxBatch == 2         \* most chunks (and vectors) in one insert_documents call
MaxTopK == 2          \* largest top_k searched with
MaxFaults == 1        \* most file-system failures in one behaviour of the store
BatchSize == 1        \* texts per provider batch in process_all_documents
MaxLiveTextLen == 4   \* longest text in the check that the chunker terminates

(***************************************************************************)
(* Python string primitives.                                               *)
(***************************************************************************)
Alphabet == {"a", ".", "\n"}

\* What a call gives back: the chunks it returned, or the exception it raised.
NotRun == [status |-> "NotRun", chunks |-> <<>>]
Raise(exc) == [status |-> exc, chunks |-> <<>>]
Return(cs) == [status |-> "Returned", chunks |-> cs]
Raised(r) == r.status # "Returned"

IsSpace(c) == c \in {" ", "\n", "\t"}

IsTerminal(c) == c \in {".", "!", "?"}

RECURSIVE LStrip(_)
LStrip(s) ==
    IF s = <<>> THEN s
    ELSE IF IsSpace(Head(s)) THEN LStrip(Tail(s)) ELSE s

RECURSIVE RStrip(_)
RStrip(s) ==
    IF s = <<>> THEN s
    ELSE IF IsSpace(s[Len(s)]) THEN RStrip(SubSeq(s, 1, Len(s) - 1)) ELSE s

\* str.strip()
Strip(s) == RStrip(LStrip(s))

\* s[i:j] with 0 <= i, Python's clamping of j
Slice(s, i, j) == SubSeq(s, i + 1, IF j < Len(s) THEN j ELSE Len(s))

\* text.split('\n\n'): left to right, non-overlapping
RECURSIVE SplitParagraphsFrom(_, _)
SplitParagraphsFrom(s, cur) ==
    IF s = <<>> THEN <<cur>>
    ELSE IF Len(s) >= 2 /\ s[1] = "\n" /\ s[2] = "\n"
         THEN <<cur>> \o SplitParagraphsFrom(SubSeq(s, 3, Len(s)), <<>>)
         ELSE SplitParagraphsFrom(Tail(s), Append(cur, Head(s)))

SplitParagraphs(s) == SplitParagraphsFrom(s, <<>>)

\* re.split(r'(?<=[.!?])\s+', text): a match starts at whitespace that
\* directly follows a terminal and takes the whole whitespace run.
RECURSIVE SplitSentencesFrom(_, _, _)
SplitSentencesFrom(s, cur, prev) ==
    IF s = <<>> THEN <<cur>>
    ELSE IF IsTerminal(prev) /\ IsSpace(Head(s))
         THEN <<cur>> \o SplitSentencesFrom(LStrip(s), <<>>, " ")
         ELSE SplitSentencesFrom(Tail(s), Append(cur, Head(s)), Head(s))

SplitSentences(s) == SplitSentencesFrom(s, <<>>, "")

\* len(text.split()): the number of maximal runs of non-whitespace
RECURSIVE WordCountFrom(_, _)
WordCountFrom(s, inWord) ==
    IF s = <<>> THEN 0
    ELSE IF IsSpace(Head(s)) THEN WordCountFrom(Tail(s), FALSE)
         ELSE (IF inWord THEN 0 ELSE 1) + WordCountFrom(Tail(s), TRUE)

WordCount(s) == WordCountFrom(s, FALSE)

\* str(n) of a non-negative integer: its decimal digits
Digit(d) == CASE d = 0 -> "0" [] d = 1 -> "1" [] d = 2 -> "2" [] d = 3 -> "3"
              [] d = 4 -> "4" [] d = 5 -> "5" [] d = 6 -> "6" [] d = 7 -> "7"
              [] d = 8 -> "8" [] d = 9 -> "9"

RECURSIVE Decimal(_)
Decimal(n) == IF n < 10 THEN <<Digit(n)>>
              ELSE Append(Decimal(n \div 10), Digit(n % 10))

\* the index of the last occurrence of c in s, 0 when there is none
RECURSIVE LastIndexOf(_, _)
LastIndexOf(s, c) ==
    IF s = <<>> THEN 0
    ELSE IF s[Len(s)] = c THEN Len(s)
         ELSE LastIndexOf(SubSeq(s, 1, Len(s) - 1), c)

\* Path(source).name: the final component of the path
PathName(p) == SubSeq(p, LastIndexOf(p, "/") + 1, Len(p))

\* Path(source).stem: the name without its last suffix; a dot that leads
\* or ends the name starts no suffix
PathStem(p) ==
    LET name == PathName(p)
        i == LastIndexOf(name, ".")
    IN IF 1 < i /\ i < Len(name) THEN SubSeq(name, 1, i - 1) ELSE name

(***************************************************************************)
(* SimpleDocumentProcessor                                                 *)
(***************************************************************************)
ChunkTag == <<"_", "c", "h", "u", "n", "k", "_">>

create_chunk(txt, chunk_id, src) ==
    [text |-> Strip(txt),
     chunk_id |-> PathStem(src) \o ChunkTag \o Decimal(chunk_id),
     source |-> src,
     chunk_number |-> chunk_id,
     char_count |-> Len(txt),
     word_count |-> WordCount(txt),
     char_start |-> 0,
     char_end |-> Len(txt)]

\* a forced pass that stops after its first window
ForceWindowsFirstOnly(txt, src, i, chunk_id, cs, ov) ==
    IF i >= Len(txt) THEN <<>>
    ELSE <<create_chunk(Slice(txt, i, i + cs), chunk_id, src)>>

\* a forced pass that moves its window by one character whatever the stride
RECURSIVE ForceWindowsStrideOne(_, _, _, _, _, _)
ForceWindowsStrideOne(txt, src, i, chunk_id, cs, ov) ==
    IF i >= Len(txt) THEN <<>>
    ELSE <<create_chunk(Slice(txt, i, i + cs), chunk_id, src)>>
         \o ForceWindowsStrideOne(txt, src, i + 1, chunk_id + 1, cs, ov)

\* range(0, len(text), chunk_size - overlap) from position i on
RECURSIVE ForceWindows(_, _, _, _, _, _)
ForceWindows(txt, src, i, chunk_id, cs, ov) ==
    IF i >= Len(txt) THEN <<>>
    ELSE LET chunk_text == Slice(txt, i, i + cs)
         IN IF Strip(chunk_text) # <<>>
            THEN <<create_chunk(chunk_text, chunk_id, src)>>
                 \o ForceWindows(txt, src, i + (cs - ov), chunk_id + 1, cs, ov)
            ELSE ForceWindows(txt, src, i + (cs - ov), chunk_id, cs, ov)

\* range() raises ValueError on a zero step and is empty on a negative one
force_split_text(txt, src, start_id, cs, ov) ==
    IF cs - ov = 0 THEN Raise("ValueError")
    ELSE IF cs - ov < 0 THEN Return(<<>>)
    ELSE Return(ForceWindows(txt, src, 0, start_id, cs, ov))

\* the greedy test of both accumulation loops
Fits(current_chunk, unit, cs) == Len(current_chunk) + Len(unit) < cs

\* A counter that steps by one after a nested pass, however many chunks it made.
AdvanceIdByOne(chunk_id, sub_chunks) == chunk_id + 1

\* chunk_id += len(sub_chunks)
AdvanceId(chunk_id, sub_chunks) == chunk_id + Len(sub_chunks)

RECURSIVE SentenceLoop(_, _, _, _, _, _, _)
SentenceLoop(sentences, src, acc, current_chunk, chunk_id, cs, ov) ==
    IF sentences = <<>>
    THEN IF current_chunk # <<>>
         THEN Return(Append(acc, create_chunk(current_chunk, chunk_id, src)))
         ELSE Return(acc)
    ELSE LET sentence == Strip(Head(sentences))
             rest == Tail(sentences)
         IN IF sentence = <<>>
            THEN SentenceLoop(rest, src, acc, current_chunk, chunk_id, cs, ov)
            ELSE IF Fits(current_chunk, sentence, cs)
            THEN SentenceLoop(rest, src, acc,
                     IF current_chunk # <<>>
                     THEN current_chunk \o <<" ">> \o sentence
                     ELSE sentence,
                     chunk_id, cs, ov)
            ELSE LET saved == IF current_chunk # <<>>
                              THEN Append(acc, create_chunk(current_chunk, chunk_id, src))
                              ELSE acc
                     id1 == IF current_chunk # <<>> THEN chunk_id + 1 ELSE chunk_id
                 IN IF Len(sentence) > cs
                    THEN LET force_chunks == force_split_text(sentence, src, id1, cs, ov)
                         IN IF Raised(force_chunks) THEN force_chunks
                            ELSE SentenceLoop(rest, src, saved \o force_chunks.chunks, <<>>,
                                              AdvanceId(id1, force_chunks.chunks), cs, ov)
                    ELSE SentenceLoop(rest, src, saved, sentence, id1, cs, ov)

split_long_text(txt, src, start_id, cs, ov) ==
    SentenceLoop(SplitSentences(txt), src, <<>>, <<>>, start_id, cs, ov)

RECURSIVE ParagraphLoop(_, _, _, _, _, _, _)
ParagraphLoop(paragraphs, src, acc, current_chunk, chunk_id, cs, ov) ==
    IF paragraphs = <<>>
    THEN IF current_chunk # <<>>
         THEN Return(Append(acc, create_chunk(current_chunk, chunk_id, src)))
         ELSE Return(acc)
    ELSE LET para == Strip(Head(paragraphs))
             rest == Tail(paragraphs)
         IN IF para = <<>>
            THEN ParagraphLoop(rest, src, acc, current_chunk, chunk_id, cs, ov)
            ELSE IF Fits(current_chunk, para, cs)
            THEN ParagraphLoop(rest, src, acc,
                     IF current_chunk # <<>>
                     THEN current_chunk \o <<"\n", "\n">> \o para
                     ELSE para,
                     chunk_id, cs, ov)
            ELSE LET saved == IF current_chunk # <<>>
                              THEN Append(acc, create_chunk(current_chunk, chunk_id, src))
                              ELSE acc
                     id1 == IF current_chunk # <<>> THEN chunk_id + 1 ELSE chunk_id
                 IN IF Len(para) > cs
                    THEN LET sub_chunks == split_long_text(para, src, id1, cs, ov)
                         IN IF Raised(sub_chunks) THEN sub_chunks
                            ELSE ParagraphLoop(rest, src, saved \o sub_chunks.chunks, <<>>,
                                               AdvanceId(id1, sub_chunks.chunks), cs, ov)
                    ELSE ParagraphLoop(rest, src, saved, para, id1, cs, ov)

smart_chunk_text(txt, src, cs, ov) ==
    ParagraphLoop(SplitParagraphs(txt), src, <<>>, <<>>, 0, cs, ov)

(***************************************************************************)
(* The chunker's specification: a processor is constructed with any        *)
(* chunk_size and overlap (the constructor checks neither), then           *)
(* smart_chunk_text is applied to a text.                                  *)
(***************************************************************************)
RECURSIVE SeqsUpTo(_, _)
SeqsUpTo(S, n) ==
    IF n = 0 THEN {<<>>}
    ELSE LET shorter == SeqsUpTo(S, n - 1)
         IN shorter \cup {Append(s, c) : s \in {t \in shorter : Len(t) = n - 1}, c \in S}

Texts == SeqsUpTo(Alphabet, MaxTextLen)

SrcA == <<"d", "/", "a", ".", "t">>
SrcB == <<"b", ".", "x", ".", "p">>
Sources == {SrcA, SrcB}

\* The second source is chunked for the shorter texts only: a chunk depends
\* on its source through chunk_id and source alone.
ChunkerInputs ==
    {<<t, s>> \in Texts \X Sources : s = SrcA \/ Len(t) + 2 <= MaxTextLen}

NoFile == [kind |-> "none", chunks |-> <<>>, embeddings |-> <<>>, metadata |-> <<>>]

NoCall == [op |-> "none", raised |-> "none", swallowed |-> FALSE,
           n_chunks |-> 0, n_embeddings |-> 0,
           query |-> <<>>, top_k |-> 0, threshold |-> [p |-> 0, q |-> 1],
           results |-> <<>>, file_existed |-> FALSE, vectors |-> <<>>,
           status |-> [total_chunks |-> 0, total_embeddings |-> 0,
                       sources |-> {}]]

StoreUntouched ==
    /\ chunks = <<>>
    /\ embeddings = <<>>
    /\ metadata = <<>>
    /\ disk = NoFile
    /\ call = NoCall

InitChunker ==
    /\ chunk_size \in 1..MaxChunkSize
    /\ overlap \in 0..MaxChunkSize
    /\ \E input \in ChunkerInputs : text = input[1] /\ source = input[2]
    /\ produced = NotRun
    /\ StoreUntouched
    /\ faults = 0

SmartChunkText ==
    /\ produced = NotRun
    /\ produced' = smart_chunk_text(text, source, chunk_size, overlap)
    /\ UNCHANGED <<chunk_size, overlap, text, source>>
    /\ UNCHANGED storeVars

NextChunker == SmartChunkText

SpecChunker == InitChunker /\ [][NextChunker]_vars

\* The same in two steps, on the texts up to MaxLiveTextLen read from SrcA:
\* the processor is constructed and handed a text, then the call runs.  Once
\* made, the call is the only thing there is to run.
NoProcessor == [status |-> "NoProcessor", chunks |-> <<>>]

InitChunkerLive ==
    /\ chunk_size = 1
    /\ overlap = 0
    /\ text = <<>>
    /\ source = SrcA
    /\ produced = NoProcessor
    /\ StoreUntouched
    /\ faults = 0

NewProcessor ==
    /\ produced = NoProcessor
    /\ chunk_size' \in 1..MaxChunkSize
    /\ overlap' \in 0..MaxChunkSize
    /\ text' \in SeqsUpTo(Alphabet, MaxLiveTextLen)
    /\ produced' = NotRun
    /\ UNCHANGED source
    /\ UNCHANGED storeVars

\* what smart_chunk_text gives for each text and configuration, tabulated
LiveInputs ==
    SeqsUpTo(Alphabet, MaxLiveTextLen) \X (1..MaxChunkSize) \X (0..MaxChunkSize)

LiveChunkTable ==
    {[input |-> in, result |-> smart_chunk_text(in[1], SrcA, in[2], in[3])] :
        in \in LiveInputs}

\* SmartChunkText, its result read from the table
SmartChunkTextLive ==
    /\ produced = NotRun
    /\ \E row \in LiveChunkTable :
           /\ row.input = <<text, chunk_size, overlap>>
           /\ produced' = row.result
    /\ UNCHANGED <<chunk_size, overlap, text, source>>
    /\ UNCHANGED storeVars

NextChunkerLive == NewProcessor \/ SmartChunkTextLive

SpecChunkerLive ==
    InitChunkerLive /\ [][NextChunkerLive]_vars /\ WF_vars(SmartChunkTextLive)

ValidConfig == 0 < overlap /\ overlap < chunk_size

Returned == produced.status = "Returned"

(***************************************************************************)
(* MilvusVectorDB: what it is given.                                       *)
(*                                                                         *)
(* Chunks are those the chunker makes: the document of n one-letter        *)
(* paragraphs, chunked with chunk_size 1, gives n chunks numbered 0..n-1;  *)
(* the documents of odd n are read from SrcA, those of even n from SrcB.   *)
(* Vector components are small integers, which float32 holds exactly.      *)
(***************************************************************************)
RECURSIVE DocText(_)
DocText(n) == IF n = 0 THEN <<>>
              ELSE IF n = 1 THEN <<"a">>
              ELSE DocText(n - 1) \o <<"\n", "\n", "a">>

DocSource(n) == IF n % 2 = 1 THEN SrcA ELSE SrcB

DocChunkTable ==
    [n \in 0..MaxBatch |-> smart_chunk_text(DocText(n), DocSource(n), 1, 0).chunks]

DocChunks(n) == DocChunkTable[n]

Vectors == {<<0, 0>>, <<1, 0>>, <<1, 1>>, <<1, 0, 0>>}

VectorBatches == SeqsUpTo(Vectors, MaxBatch)

\* np.array(..., dtype=np.float32) raises ValueError on rows of unequal length
Ragged(es) == \E i, j \in 1..Len(es) : Len(es[i]) # Len(es[j])

\* the batches of m vectors: those np.array raises on, and those it takes
RaggedBatches == [m \in 0..MaxBatch |-> {es \in VectorBatches : Len(es) = m /\ Ragged(es)}]

UniformBatches == [m \in 0..MaxBatch |-> {es \in VectorBatches : Len(es) = m /\ ~Ragged(es)}]

\* <<>> is what generate_single_embedding gives when the provider fails
Queries == {<<1, 0>>, <<0, 1>>, <<0, 0>>, <<>>}

\* similarity_threshold as a fraction p/q, q > 0: the default 0.1, and 0.75
Thresholds == {[p |-> 1, q |-> 10], [p |-> 3, q |-> 4]}

\* float32 holds every integer up to 2^24; beyond, up to 2^25, the even ones
\* (round to nearest, ties to even)
F32Exact == 16777216

Float32(x) ==
    IF -F32Exact <= x /\ x <= F32Exact THEN x
    ELSE IF x % 2 = 0 THEN x
    ELSE IF ((x - 1) \div 2) % 2 = 0 THEN x - 1 ELSE x + 1

\* np.array(embeddings, dtype=np.float32) of rows of one length
ToFloat32Rows(es) == [i \in 1..Len(es) |-> [j \in 1..Len(es[i]) |-> Float32(es[i][j])]]

\* no metadata record is built for the chunks
MetadataOfNone(cs) == <<>>

MetadataOf(cs) ==
    [i \in 1..Len(cs) |->
        [chunk_id |-> cs[i].chunk_id,
         source |-> cs[i].source,
         char_start |-> cs[i].char_start,
         char_end |-> cs[i].char_end]]

(***************************************************************************)
(* The file at storage_path.                                               *)
(***************************************************************************)
\* pickle.dump of the three sequences; float32 values widen exactly (tolist)
Snapshot(cs, es, ms) ==
    [kind |-> "snapshot", chunks |-> cs, embeddings |-> es, metadata |-> ms]

\* a file pickle.load cannot read: opened for writing, then the dump failed
CorruptFile == [kind |-> "corrupt", chunks |-> <<>>, embeddings |-> <<>>, metadata |-> <<>>]

\* What save_to_disk can leave behind; it catches every exception, so its
\* caller never learns which:
\*   "saved":  the file holds the snapshot;
\*   "failed": mkdir or open failed, the file is as it was;
\*   "torn":   open truncated the file and the dump failed.
SaveOutcomes == {"saved", "failed", "torn"}

save_to_disk(outcome, cs, es, ms) ==
    CASE outcome = "saved" -> Snapshot(cs, es, ms)
      [] outcome = "failed" -> disk
      [] outcome = "torn" -> CorruptFile

\* a load that reads nothing from the file
LoadsNothing(file) == [chunks |-> <<>>, embeddings |-> <<>>, metadata |-> <<>>]

\* load_from_disk: the snapshot's sequences; empty when there is no file,
\* and empty too when reading it raises
load_from_disk(file) ==
    IF file.kind = "snapshot"
    THEN [chunks |-> file.chunks, embeddings |-> file.embeddings, metadata |-> file.metadata]
    ELSE [chunks |-> <<>>, embeddings |-> <<>>, metadata |-> <<>>]

\* get_status(): the counts and the sources, which the code lists in the
\* order of a Python set, that is in no order
get_status(cs, es) ==
    [total_chunks |-> Len(cs),
     total_embeddings |-> Len(es),
     sources |-> {cs[i].source : i \in 1..Len(cs)}]

(***************************************************************************)
(* Cosine similarity.  A score is kept exactly, as the fraction num/den    *)
(* that equals sign(cos) * cos^2: this orders scores as their cosines are  *)
(* ordered.  nan marks the 0/0 of a zero-norm vector.                      *)
(***************************************************************************)
RECURSIVE DotFrom(_, _, _)
DotFrom(u, v, i) == IF i > Len(u) THEN 0 ELSE u[i] * v[i] + DotFrom(u, v, i + 1)

Dot(u, v) == DotFrom(u, v, 1)

NormSq(v) == Dot(v, v)

Sign(x) == IF x > 0 THEN 1 ELSE IF x < 0 THEN -1 ELSE 0

NaN == [nan |-> TRUE, num |-> 0, den |-> 1]

\* (stored / |stored|) . (query / |query|): dividing a zero vector by its
\* zero norm gives nan components, and nan spreads through the product
Similarity(stored, query) ==
    IF NormSq(stored) = 0 \/ NormSq(query) = 0 THEN NaN
    ELSE [nan |-> FALSE,
          num |-> Sign(Dot(stored, query)) * Dot(stored, query) * Dot(stored, query),
          den |-> NormSq(stored) * NormSq(query)]

\* a < b on floats: false whenever either is nan
ScoreLess(a, b) == ~a.nan /\ ~b.nan /\ a.num * b.den < b.num * a.den

ScoreEq(a, b) == ~a.nan /\ ~b.nan /\ a.num * b.den = b.num * a.den

\* similarity_score >= similarity_threshold: false for nan
AtLeast(score, thr) ==
    ~score.nan /\ score.num * thr.q * thr.q >= Sign(thr.p) * thr.p * thr.p * score.den

\* the order sorting puts a before b in: ascending, nan last
SortsBefore(a, b) == (~a.nan /\ b.nan) \/ ScoreLess(a, b)

OrderTable ==
    [n \in 0..(MaxEntries + 1) |->
        {o \in [1..n -> 1..n] : \A i, j \in 1..n : i # j => o[i] # o[j]}]

\* the orders of n indices
Orders(n) == OrderTable[n]

\* an argsort that does not sort: any order of the indices
ArgsortUnsorted(sims) == Orders(Len(sims))

\* np.argsort(similarities): ascending, nan last.  The default kind is not
\* stable, so the order among equal scores (and among nans) is the build's
\* choice: every ascending order is a possible result.
Argsort(sims) ==
    {o \in Orders(Len(sims)) :
        \A i, j \in 1..Len(sims) : i < j => ~SortsBefore(sims[o[j]], sims[o[i]])}

Min(a, b) == IF a < b THEN a ELSE b

\* the slice without its bound: every index, best first
TopIndicesNoCut(order, n, top_k) == SubSeq([k \in 1..n |-> order[n - k + 1]], 1, n)

\* order[::-1][:top_k], for top_k >= 0
TopIndices(order, n, top_k) ==
    SubSeq([k \in 1..n |-> order[n - k + 1]], 1, Min(top_k, n))

\* the filter that lets every score through
KeepsAll(score, thr) == TRUE

\* if similarity_score >= similarity_threshold
Keeps(score, thr) == AtLeast(score, thr)

\* the result built for store index idx (idx itself is not in the code's
\* dictionary: it records which entry the result was built from)
ResultOf(idx, score) ==
    [text |-> chunks[idx].text,
     source |-> chunks[idx].source,
     score |-> score,
     chunk_id |-> chunks[idx].chunk_id,
     metadata |-> metadata[idx],
     idx |-> idx]

RECURSIVE BuildResults(_, _, _, _, _)
BuildResults(top_indices, n, k, sims, thr) ==
    IF k > n THEN <<>>
    ELSE (IF Keeps(sims[top_indices[k]], thr)
          THEN <<ResultOf(top_indices[k], sims[top_indices[k]])>>
          ELSE <<>>)
         \o BuildResults(top_indices, n, k + 1, sims, thr)

\* np.dot(stored_norms, query_norm): one score per stored row
RECURSIVE SimilaritiesFrom(_, _)
SimilaritiesFrom(query, i) ==
    IF i > Len(embeddings) THEN <<>>
    ELSE <<Similarity(embeddings[i], query)>> \o SimilaritiesFrom(query, i + 1)

Similarities(query) == SimilaritiesFrom(query, 1)

\* what makes the body of search_similar raise (and return []): no stored
\* row (np.linalg.norm over axis 1 of an empty array), stored rows of unequal
\* length (np.array), or a query of another length (np.dot)
SearchRaises(query) ==
    \/ embeddings = <<>>
    \/ Ragged(embeddings)
    \/ Len(query) # Len(embeddings[1])

(***************************************************************************)
(* MilvusVectorDB: the operations.                                         *)
(***************************************************************************)
Called(name) == [NoCall EXCEPT !.op = name]

\* a length test that lets every pair of lengths through
CountMismatchIgnored(n_chunks, n_embeddings) == FALSE

\* a length test that only notices that no vector came at all
CountMismatchOnlyWhenNoVectors(n_chunks, n_embeddings) ==
    n_chunks # n_embeddings /\ n_embeddings = 0

\* if len(chunks) != len(embeddings)
CountMismatch(n_chunks, n_embeddings) == n_chunks # n_embeddings

\* the store object and its file, as an operation finds them
Store == [chunks |-> chunks, embeddings |-> embeddings, metadata |-> metadata,
          disk |-> disk]

\* an operation that leaves the file as base and the store object empty
LeavesMemoryEmpty(base) ==
    /\ chunks' = <<>>
    /\ embeddings' = <<>>
    /\ metadata' = <<>>
    /\ disk' = base.disk

\* the operation leaves the store object and the file as base
Leaves(base) ==
    /\ chunks' = base.chunks
    /\ embeddings' = base.embeddings
    /\ metadata' = base.metadata
    /\ disk' = base.disk

\* the body of insert_documents on the store base, given the chunks cs and m
\* vectors; made is the record of the call that runs it
InsertInto(base, cs, m, made) ==
    IF CountMismatch(Len(cs), m)
    THEN \* raise ValueError, before the try: the vectors are not read
         /\ call' = [made EXCEPT !.raised = "ValueError"]
         /\ Leaves(base)
         /\ UNCHANGED faults
    ELSE \/ \* np.array raises inside the try: caught and printed
            /\ RaggedBatches[m] # {}
            /\ call' = [made EXCEPT !.swallowed = TRUE]
            /\ Leaves(base)
            /\ UNCHANGED faults
         \/ /\ Len(base.chunks) + Len(cs) <= MaxEntries
            /\ \E es \in UniformBatches[m], outcome \in SaveOutcomes :
                   /\ outcome # "saved" => faults > 0
                   /\ chunks' = base.chunks \o cs
                   /\ embeddings' = base.embeddings \o ToFloat32Rows(es)
                   /\ metadata' = base.metadata \o MetadataOf(cs)
                   /\ disk' = IF outcome = "failed" THEN base.disk
                              ELSE save_to_disk(outcome, chunks', embeddings', metadata')
                   /\ faults' = IF outcome = "saved" THEN faults ELSE faults - 1
                   /\ call' = [made EXCEPT !.vectors = es]

\* insert_documents(chunks, embeddings), given n chunks and m vectors
InsertDocuments ==
    \E n \in 0..MaxBatch, m \in 0..MaxBatch :
        InsertInto(Store, DocChunks(n), m,
                   [Called("insert") EXCEPT !.n_chunks = n, !.n_embeddings = m])

\* search_similar(query_embedding, top_k, similarity_threshold)
Searched(query, top_k, thr) ==
    [Called("search") EXCEPT !.query = query, !.top_k = top_k, !.threshold = thr]

\* a test for the empty store that never finds it empty
HasNoEmbeddingsNever(es) == FALSE

\* if not self.embeddings
HasNoEmbeddings(es) == es = <<>>

SearchSimilar ==
    /\ \E query \in Queries :
        IF HasNoEmbeddings(embeddings)
        THEN \* "No documents in database"
             \E top_k \in 0..MaxTopK, thr \in Thresholds :
                call' = Searched(query, top_k, thr)
        ELSE IF SearchRaises(query)
        THEN \* caught and printed: "Search failed"
             \E top_k \in 0..MaxTopK, thr \in Thresholds :
                call' = [Searched(query, top_k, thr) EXCEPT !.swallowed = TRUE]
        ELSE LET sims == Similarities(query)
                 n == Len(sims)
             IN \E order \in Argsort(sims), top_k \in 0..MaxTopK, thr \in Thresholds :
                    LET top_indices == TopIndices(order, n, top_k)
                    IN call' = [Searched(query, top_k, thr) EXCEPT !.results =
                           BuildResults(top_indices, Len(top_indices), 1, sims, thr)]
    /\ UNCHANGED <<chunks, embeddings, metadata, disk, faults>>

\* an unlink that leaves the file where it is
UnlinkKeepsFile(file) == file

\* Path(self.storage_path).unlink()
Unlink(file) == NoFile

\* clear_database(): unlink may raise, after the lists were emptied
ClearDatabase ==
    \E unlinked \in BOOLEAN :
        /\ chunks' = <<>>
        /\ embeddings' = <<>>
        /\ metadata' = <<>>
        /\ IF disk.kind = "none"
           THEN /\ unlinked
                /\ UNCHANGED <<disk, faults>>
                /\ call' = Called("clear")
           ELSE IF unlinked
           THEN /\ disk' = Unlink(disk)
                /\ UNCHANGED faults
                /\ call' = [Called("clear") EXCEPT !.file_existed = TRUE]
           ELSE /\ faults > 0
                /\ faults' = faults - 1
                /\ UNCHANGED disk
                /\ call' = [Called("clear") EXCEPT !.raised = "OSError",
                                                    !.file_existed = TRUE]

\* MilvusVectorDB(storage_path): a new store object on the same file
Construct ==
    /\ chunks' = load_from_disk(disk).chunks
    /\ embeddings' = load_from_disk(disk).embeddings
    /\ metadata' = load_from_disk(disk).metadata
    /\ call' = [Called("construct") EXCEPT !.swallowed = (disk.kind = "corrupt")]
    /\ UNCHANGED <<disk, faults>>

StoreConstructed ==
    /\ chunk_size = 1
    /\ overlap = 0
    /\ text = <<>>
    /\ source = SrcA
    /\ produced = NotRun
    /\ StoreUntouched

(***************************************************************************)
(* The store and its file: insert, clear and construct, where up to        *)
(* MaxFaults operations on the file may fail.                              *)
(***************************************************************************)
InitStore == StoreConstructed /\ faults = MaxFaults

NextStore ==
    \/ (InsertDocuments /\ UNCHANGED chunkerVars)
    \/ (ClearDatabase /\ UNCHANGED chunkerVars)
    \/ (Construct /\ UNCHANGED chunkerVars)

SpecStore == InitStore /\ [][NextStore]_vars

(***************************************************************************)
(* Searching the store.  What search_similar reads is in memory, and the   *)
(* failures of the file never change what insert, clear and construct      *)
(* leave in memory beyond states reached without them, so the file is      *)
(* taken to work here.                                                     *)
(***************************************************************************)
InitSearch == StoreConstructed /\ faults = 0

NextSearch ==
    \/ (InsertDocuments /\ UNCHANGED chunkerVars)
    \/ (SearchSimilar /\ UNCHANGED chunkerVars)
    \/ (ClearDatabase /\ UNCHANGED chunkerVars)
    \/ (Construct /\ UNCHANGED chunkerVars)

SpecSearch == InitSearch /\ [][NextSearch]_vars

(***************************************************************************)
(* The store with its two reading operations, search_similar and           *)
(* get_status, next to insert, clear and construct.  Neither of the two    *)
(* touches the file, so the file is taken to work here, as for SpecSearch. *)
(***************************************************************************)
GetStatus ==
    /\ call' = [Called("get_status") EXCEPT !.status = get_status(chunks, embeddings)]
    /\ Leaves(Store)
    /\ UNCHANGED faults

InitReads == StoreConstructed /\ faults = 0

NextReads ==
    \/ (InsertDocuments /\ UNCHANGED chunkerVars)
    \/ (SearchSimilar /\ UNCHANGED chunkerVars)
    \/ (GetStatus /\ UNCHANGED chunkerVars)
    \/ (ClearDatabase /\ UNCHANGED chunkerVars)
    \/ (Construct /\ UNCHANGED chunkerVars)

SpecReads == InitReads /\ [][NextReads]_vars

(***************************************************************************)
(* Ingestion: the three entry points that chunk documents, ask the         *)
(* provider for one vector per chunk text and insert both.  The provider   *)
(* gives back some number of vectors: all of them, none (its exception is  *)
(* caught by generate_embeddings, which returns []), or fewer than asked.  *)
(* process_all_documents asks in batches, of 50 texts in the code and of   *)
(* BatchSize texts here, so that a document of MaxBatch chunks makes more  *)
(* than one batch.                                                         *)
(***************************************************************************)
\* generate_embeddings(texts): how many vectors may come back for n texts
generate_embeddings(n) == IF n = 0 THEN {0} ELSE 0..n

\* range(0, len(chunk_texts), batch_size): the sizes of the batches
RECURSIVE BatchSizes(_)
BatchSizes(n) ==
    IF n <= 0 THEN <<>> ELSE <<Min(n, BatchSize)>> \o BatchSizes(n - BatchSize)

\* what the provider may give back for the batches of n texts, batch by batch
BatchReturnsTable ==
    [n \in 0..MaxBatch |->
        {ks \in [1..Len(BatchSizes(n)) -> 0..BatchSize] :
            \A b \in 1..Len(BatchSizes(n)) : ks[b] \in generate_embeddings(BatchSizes(n)[b])}]

BatchReturns(n) == BatchReturnsTable[n]

RECURSIVE SumFrom(_, _)
SumFrom(ks, b) == IF b > Len(ks) THEN 0 ELSE ks[b] + SumFrom(ks, b + 1)

\* if batch_embeddings: ... else: return
SomeBatchEmpty(ks) == \E b \in 1..Len(ks) : ks[b] = 0

Ingested(name, n, m) == [Called(name) EXCEPT !.n_chunks = n, !.n_embeddings = m]

\* RAGSystem.add_document(file_path)
AddDocument ==
    \E n \in 0..MaxBatch :
        \E m \in generate_embeddings(n) :
            InsertInto(Store, DocChunks(n), m, Ingested("add_document", n, m))

\* RAGKnowledgeAssistant.ingest_documents(documents_folder)
IngestDocuments ==
    \E n \in 0..MaxBatch :
        \E m \in generate_embeddings(n) :
            IF n = 0 \/ m = 0
            THEN \* "No documents found to process", "Failed to generate embeddings"
                 /\ call' = Ingested("ingest_documents", n, m)
                 /\ UNCHANGED <<chunks, embeddings, metadata, disk, faults>>
            ELSE InsertInto(Store, DocChunks(n), m, Ingested("ingest_documents", n, m))

\* the store object process_all_documents constructs on the file
Loaded ==
    [chunks |-> load_from_disk(disk).chunks,
     embeddings |-> load_from_disk(disk).embeddings,
     metadata |-> load_from_disk(disk).metadata,
     disk |-> disk]

\* that store after clear_database()
Cleared == [chunks |-> <<>>, embeddings |-> <<>>, metadata |-> <<>>,
            disk |-> IF disk.kind = "none" THEN disk ELSE Unlink(disk)]

\* process_all_documents(documents_folder, force_reprocess); reprocess is the
\* answer typed at the prompt
ProcessAllDocuments ==
    \E force_reprocess \in BOOLEAN, reprocess \in BOOLEAN, n \in 0..MaxBatch :
        \E ks \in BatchReturns(n) :
            LET made == Ingested("process_all_documents", n, SumFrom(ks, 1))
            IN IF ~force_reprocess /\ Loaded.chunks # <<>> /\ ~reprocess
               THEN \* "Using existing processed documents"
                    /\ call' = made
                    /\ Leaves(Loaded)
                    /\ UNCHANGED faults
               ELSE \/ \* clear_database raises from unlink
                       /\ force_reprocess /\ disk.kind # "none" /\ faults > 0
                       /\ faults' = faults - 1
                       /\ call' = [made EXCEPT !.raised = "OSError"]
                       /\ Leaves([Cleared EXCEPT !.disk = disk])
                    \/ LET base == IF force_reprocess THEN Cleared ELSE Loaded
                       IN IF n = 0 \/ SomeBatchEmpty(ks)
                          THEN \* "No documents found", "Failed to generate embeddings for batch"
                               /\ call' = made
                               /\ Leaves(base)
                               /\ UNCHANGED faults
                          ELSE InsertInto(base, DocChunks(n), SumFrom(ks, 1), made)

InitIngest == StoreConstructed /\ faults = 0

NextIngest ==
    \/ (AddDocument /\ UNCHANGED chunkerVars)
    \/ (IngestDocuments /\ UNCHANGED chunkerVars)
    \/ (ProcessAllDocuments /\ UNCHANGED chunkerVars)
    \/ (ClearDatabase /\ UNCHANGED chunkerVars)

SpecIngest == InitIngest /\ [][NextIngest]_vars

(***************************************************************************)
(* Claims about the chunker, checked under SpecChunker.                    *)
(***************************************************************************)

\* C1: under a configuration with 0 < overlap < chunk_size, every chunk that
\* smart_chunk_text returns has char_count <= chunk_size and a text of at
\* most chunk_size characters, whichever pass produced it.
C1_ChunkWithinSize ==
    (ValidConfig /\ Returned) =>
        \A i \in 1..Len(produced.chunks) :
            /\ produced.chunks[i].char_count <= chunk_size
            /\ Len(produced.chunks[i].text) <= chunk_size

\* C2: the chunks smart_chunk_text returns are numbered 0, 1, ..., k-1 in
\* list order, and chunk i's chunk_id is the stem of the source, "_chunk_"
\* and i in decimal.
ExpectedStem == IF source = SrcA THEN <<"a">> ELSE <<"b", ".", "x">>

ExpectedNumber(n) == CASE n = 0 -> <<"0">> [] n = 1 -> <<"1">> [] n = 2 -> <<"2">>
                       [] n = 3 -> <<"3">> [] n = 4 -> <<"4">> [] n = 5 -> <<"5">>
                       [] n = 6 -> <<"6">> [] n = 7 -> <<"7">> [] n = 8 -> <<"8">>
                       [] n = 9 -> <<"9">> [] n = 10 -> <<"1", "0">>
                       [] OTHER -> <<"?">>

C2_ContiguousNumbers ==
    Returned =>
        \A i \in 1..Len(produced.chunks) :
            /\ produced.chunks[i].chunk_number = i - 1
            /\ produced.chunks[i].chunk_id =
                   ExpectedStem \o <<"_", "c", "h", "u", "n", "k", "_">> \o ExpectedNumber(i - 1)

\* A paragraph-pass chunk, then a sentence-pass chunk, then three forced
\* windows, numbered through.
C2_Witness ==
    /\ text = <<"a", "\n", "\n", ".", "\n", "a", "a", "a">>
    /\ chunk_size = 2 /\ overlap = 1
    /\ Returned
    /\ Len(produced.chunks) = 5
    /\ produced.chunks[5].chunk_number = 4


(***************************************************************************)
(* Claims about the store and its file, checked under SpecStore.           *)
(***************************************************************************)
Memory == [chunks |-> chunks, embeddings |-> embeddings, metadata |-> metadata]

\* C3: insert_documents given chunks and embeddings of unequal counts raises
\* an error to its caller and leaves chunks, embeddings, metadata and the
\* snapshot file as they were before the call.
C3_MismatchRejected ==
    [][(call'.op = "insert" /\ call'.n_chunks # call'.n_embeddings) =>
          /\ call'.raised = "ValueError"
          /\ chunks' = chunks
          /\ embeddings' = embeddings
          /\ metadata' = metadata
          /\ disk' = disk]_vars

\* a mismatched insert was raised on a store that holds entries and a file
C3_Witness ==
    /\ call.op = "insert"
    /\ call.n_chunks # call.n_embeddings
    /\ call.raised = "ValueError"
    /\ Len(chunks) > 0
    /\ disk.kind = "snapshot"

\* C4: in every reachable state all stored embedding vectors have the same
\* length (an insert of vectors of another length is rejected).
C4_OneDimension ==
    \A i, j \in 1..Len(embeddings) : Len(embeddings[i]) = Len(embeddings[j])

\* C5: insert_documents is all-or-nothing at the API boundary: when it
\* returns normally every given entry has been appended, and when it does
\* not append them an error is raised and the store is as it was.
C5_AllOrNothing ==
    [][call'.op = "insert" =>
          IF call'.raised = "none"
          THEN /\ Len(chunks') = Len(chunks) + call'.n_chunks
               /\ Len(embeddings') = Len(embeddings) + call'.n_embeddings
               /\ Len(metadata') = Len(metadata) + call'.n_chunks
          ELSE /\ chunks' = chunks
               /\ embeddings' = embeddings
               /\ metadata' = metadata]_vars

\* C6: wherever a caller can observe the store, the file and the memory
\* agree: after construction and after an insert the file holds exactly the
\* chunks, embeddings and metadata in memory (no file standing for none),
\* and after a clear there is no file.
FileAgrees ==
    /\ disk.kind # "corrupt"
    /\ load_from_disk(disk) = Memory

C6_FileAgreesWithMemory ==
    /\ (call.op \in {"none", "construct"}) => FileAgrees
    /\ (call.op = "insert" /\ call.raised = "none") => FileAgrees
    /\ (call.op = "clear" /\ call.raised = "none") => disk.kind = "none"

(***************************************************************************)
(* Claims about search_similar, checked under SpecSearch.                  *)
(***************************************************************************)
ScoreAtLeast(a, b) == ~a.nan /\ ~b.nan /\ a.num * b.den >= b.num * a.den

ScorePositive(a) == ~a.nan /\ a.num > 0

ReturnedIndices == {call.results[i].idx : i \in 1..Len(call.results)}

\* a search that ran to its end: the store held entries and nothing raised
Ranked == call.op = "search" /\ embeddings # <<>> /\ ~call.swallowed

\* the similarity this search computed for stored entry k
StoredScore(k) == Similarity(embeddings[k], call.query)

\* C7: search_similar returns at most top_k results, each with a score
\* >= similarity_threshold.
C7_AtMostTopKAboveThreshold ==
    call.op = "search" =>
        /\ Len(call.results) <= call.top_k
        /\ \A i \in 1..Len(call.results) :
              /\ ~call.results[i].score.nan
              /\ call.results[i].score.num * call.threshold.q * call.threshold.q
                    >= call.threshold.p * call.threshold.p * call.results[i].score.den

\* top_k = 1 cut off an entry that clears the threshold, and the threshold
\* was what decided another search
C7_Witness ==
    /\ Ranked
    /\ call.top_k = 1
    /\ Len(call.results) = 1
    /\ \A k \in 1..Len(embeddings) : AtLeast(StoredScore(k), call.threshold)
    /\ Len(embeddings) = 2

\* C8: the results are in non-increasing order of score.
C8_Descending ==
    call.op = "search" =>
        \A i \in 1..(Len(call.results) - 1) :
            ScoreAtLeast(call.results[i].score, call.results[i + 1].score)

\* two results of different scores
C8_Witness ==
    /\ Ranked
    /\ Len(call.results) = 2
    /\ ScoreLess(call.results[2].score, call.results[1].score)

\* C9: entries of equal similarity are ranked in insertion order, and when
\* top_k cuts through a group of them the earlier-inserted are returned.
C9_TiesInInsertionOrder ==
    Ranked =>
        /\ \A i, j \in 1..Len(call.results) :
              (i < j /\ ScoreEq(call.results[i].score, call.results[j].score))
                  => call.results[i].idx < call.results[j].idx
        /\ \A i \in 1..Len(call.results), k \in 1..Len(embeddings) :
              (k \notin ReturnedIndices /\ ScoreEq(StoredScore(k), call.results[i].score))
                  => call.results[i].idx < k

\* C10: a stored vector of zero norm never takes a top_k slot from an entry
\* of positive score: an entry whose positive score clears the threshold and
\* that has fewer than top_k other entries scoring at least as much is
\* returned.
Rivals(k) ==
    {j \in 1..Len(embeddings) : j # k /\ ScoreAtLeast(StoredScore(j), StoredScore(k))}

C10_ZeroNormTakesNoSlot ==
    (Ranked /\ NormSq(call.query) > 0) =>
        \A k \in 1..Len(embeddings) :
            (/\ ScorePositive(StoredScore(k))
             /\ AtLeast(StoredScore(k), call.threshold)
             /\ Cardinality(Rivals(k)) < call.top_k)
                => k \in ReturnedIndices

\* C11: search_similar on a store with no entries returns an empty result
\* sequence and no error, raised or caught, for every query, top_k and
\* threshold.
C11_EmptyStoreGivesNoResults ==
    (call.op = "search" /\ embeddings = <<>>) =>
        /\ call.results = <<>>
        /\ call.raised = "none"
        /\ ~call.swallowed

\* a search with top_k = 2 of a store that has no entries and no file
C11_Witness ==
    /\ call.op = "search"
    /\ call.query = <<1, 0>>
    /\ call.top_k = 2
    /\ chunks = <<>>
    /\ embeddings = <<>>
    /\ disk.kind = "none"

C13_RoundTrip ==
    [][(call'.op = "construct" /\ faults = MaxFaults) =>
          /\ chunks' = chunks
          /\ embeddings' = embeddings
          /\ metadata' = metadata
          /\ get_status(chunks', embeddings') = get_status(chunks, embeddings)]_vars

\* a store of two entries with different vectors was constructed from the
\* file, no write having failed
C13_Witness ==
    /\ call.op = "construct"
    /\ faults = MaxFaults
    /\ Len(chunks) = 2
    /\ embeddings[1] # embeddings[2]
    /\ get_status(chunks, embeddings).total_chunks = 2

\* C14: constructing a store on a corrupt or unreadable snapshot file
\* surfaces a load error to the caller; the file is not turned into an empty
\* store.  (A missing file gives an empty store and no error.)
C14_CorruptSnapshotSurfaced ==
    call.op = "construct" =>
        IF disk.kind = "corrupt"
        THEN call.raised # "none"
        ELSE call.raised = "none" /\ ~call.swallowed /\
             (disk.kind = "none" => chunks = <<>> /\ embeddings = <<>> /\ metadata = <<>>)

\* C15: a configuration whose chunk_size or overlap is not positive, or
\* whose overlap is not less than chunk_size, is rejected: no text is ever
\* chunked under it.
C15_InvalidConfigRejected ==
    (Returned /\ produced.chunks # <<>>) => ValidConfig

\* C16: under a configuration with 0 < overlap < chunk_size, every chunk
\* that smart_chunk_text returns has char_count and char_end equal to the
\* length of its text field.
C16_CharCountIsTextLength ==
    (Returned /\ ValidConfig) =>
        \A i \in 1..Len(produced.chunks) :
            /\ produced.chunks[i].char_count = Len(produced.chunks[i].text)
            /\ produced.chunks[i].char_end = Len(produced.chunks[i].text)

RECURSIVE WithoutSpace(_)
WithoutSpace(s) ==
    IF s = <<>> THEN <<>>
    ELSE (IF IsSpace(Head(s)) THEN <<>> ELSE <<Head(s)>>) \o WithoutSpace(Tail(s))

IsPrefixOf(p, s) == Len(p) <= Len(s) /\ SubSeq(s, 1, Len(p)) = p

IsSuffixOf(p, s) == Len(p) <= Len(s) /\ SubSeq(s, Len(s) - Len(p) + 1, Len(s)) = p

\* The chunks from the k-th on rebuild rest: each chunk, once a prefix of at
\* most overlap characters that repeats the end of the chunk before it is
\* removed, continues rest where the chunks before it stopped.
RECURSIVE Rebuilds(_, _)
Rebuilds(k, rest) ==
    IF k > Len(produced.chunks) THEN rest = <<>>
    ELSE LET t == WithoutSpace(produced.chunks[k].text)
             prev == IF k = 1 THEN <<>> ELSE WithoutSpace(produced.chunks[k - 1].text)
         IN \E j \in 0..Min(overlap, Len(t)) :
                /\ IsSuffixOf(SubSeq(t, 1, j), prev)
                /\ IsPrefixOf(SubSeq(t, j + 1, Len(t)), rest)
                /\ Rebuilds(k + 1, SubSeq(rest, Len(t) - j + 1, Len(rest)))

\* C17: under a configuration with 0 < overlap < chunk_size no input content
\* is lost or reordered: the chunk texts in sequence order, with the
\* separators and the repeated overlap prefixes removed, give the input up
\* to whitespace.
C17_NoContentLost ==
    (Returned /\ ValidConfig) => Rebuilds(1, WithoutSpace(text))

\* a paragraph chunk followed by three forced windows that overlap
C17_Witness ==
    /\ Returned
    /\ text = <<"a", "\n", "\n", ".", "a", ".", "a", ".">>
    /\ chunk_size = 3
    /\ overlap = 1
    /\ Len(produced.chunks) = 4
    /\ produced.chunks[3].text = <<".", "a", ".">>

\* similarity_threshold=0.1, the default of search_similar
DefaultThreshold == [p |-> 1, q |-> 10]

\* C19: once a chunk with a non-zero embedding v is stored, whatever was
\* inserted before it, search_similar(v, top_k=1) with the default threshold
\* returns exactly one result, and its score is the greatest there is, 1.
C19_SelfRetrieval ==
    (/\ call.op = "search"
     /\ call.top_k = 1
     /\ call.threshold = DefaultThreshold
     /\ NormSq(call.query) > 0
     /\ \E k \in 1..Len(embeddings) : embeddings[k] = call.query)
        => /\ Len(call.results) = 1
           /\ ~call.results[1].score.nan
           /\ call.results[1].score.num = call.results[1].score.den

\* entry i scores less than entry j; an entry without a score (nan) scores
\* less than any entry that has one
ScoresBelow(i, j) ==
    \/ StoredScore(i).nan /\ ~StoredScore(j).nan
    \/ ScoreLess(StoredScore(i), StoredScore(j))

\* the sets of entries that are the top_k highest-scoring
TopSets ==
    {T \in SUBSET (1..Len(embeddings)) :
        /\ Cardinality(T) = Min(call.top_k, Len(embeddings))
        /\ \A i \in T, j \in (1..Len(embeddings)) \ T : ~ScoresBelow(i, j)}

\* C20: search_similar returns exactly the entries that are among the top_k
\* highest-scoring and whose score is >= similarity_threshold: the threshold
\* is applied after the cut, so no entry outside the top_k is returned, and
\* there may be fewer than top_k results.
C20_ThresholdAfterTopK ==
    Ranked =>
        \E T \in TopSets :
            ReturnedIndices = {i \in T : AtLeast(StoredScore(i), call.threshold)}

(***************************************************************************)
(* Claims about ingestion, checked under SpecIngest.                       *)
(***************************************************************************)
IngestionOps == {"add_document", "ingest_documents", "process_all_documents"}

\* C18: when the provider gives back fewer vectors than texts (none, or some
\* missing, for the batch or for a sub-batch), none of the ingestion's chunks
\* is added; through each entry point the chunk set is stored completely or
\* not at all.
C18_IngestionAllOrNothing ==
    [][call'.op \in IngestionOps =>
          LET new == DocChunks(call'.n_chunks)
              none == /\ chunks' \in {chunks, <<>>}
                      /\ embeddings' \in {embeddings, <<>>}
                      /\ metadata' \in {metadata, <<>>}
              all == /\ chunks' \in {chunks \o new, new}
                     /\ Len(embeddings') = Len(chunks')
                     /\ Len(metadata') = Len(chunks')
          IN /\ none \/ all
             /\ call'.n_embeddings < call'.n_chunks => none]_vars

\* process_all_documents got a vector for the first batch and none for the
\* second, on a store that held an entry
C18_Witness ==
    /\ call.op = "process_all_documents"
    /\ call.n_chunks = 2
    /\ call.n_embeddings = 1
    /\ Len(chunks) = 1

(***************************************************************************)
(* Claims about forced windowing, checked under SpecChunker on the texts   *)
(* that are one sentence longer than chunk_size: smart_chunk_text hands    *)
(* such a text whole to _split_long_text and that to _force_split_text.    *)
(***************************************************************************)
SingleLongSentence ==
    /\ text = Strip(text)
    /\ SplitParagraphs(text) = <<text>>
    /\ SplitSentences(text) = <<text>>
    /\ Len(text) > chunk_size

Stride == chunk_size - overlap

\* the number of window starts 0, stride, 2*stride, ... below L
WindowStarts(L) == (L + Stride - 1) \div Stride

\* C21: for a sentence longer than chunk_size and 0 < overlap < chunk_size,
\* forced windowing emits exactly one chunk per window start, in order, the
\* j-th chunk being s[j*stride : j*stride + chunk_size].
C21_OneChunkPerWindow ==
    (Returned /\ ValidConfig /\ SingleLongSentence) =>
        /\ Len(produced.chunks) = WindowStarts(Len(text))
        /\ \A j \in 0..(Len(produced.chunks) - 1) :
              produced.chunks[j + 1].text = Slice(text, j * Stride, j * Stride + chunk_size)

\* C22: under every configuration with overlap < chunk_size smart_chunk_text
\* terminates, for every text, and a single sentence of length L is split
\* into at most ceil(L / (chunk_size - overlap)) chunks.
C22_TerminatesWithinBound ==
    /\ (produced = NotRun /\ overlap < chunk_size) ~> Returned
    /\ []((Returned /\ overlap < chunk_size /\ SingleLongSentence) =>
             Len(produced.chunks) <= WindowStarts(Len(text)))

\* a sentence of the greatest length was split into as many chunks as the
\* bound allows, with no overlap
C22_Witness ==
    /\ Returned
    /\ overlap = 0
    /\ chunk_size = 3
    /\ SingleLongSentence
    /\ Len(text) = MaxLiveTextLen
    /\ Len(produced.chunks) = WindowStarts(Len(text))

(***************************************************************************)
(* Claims about the store's three sequences, checked under SpecStore.      *)
(***************************************************************************)
Aligned ==
    /\ Len(embeddings) = Len(chunks)
    /\ Len(metadata) = Len(chunks)
    /\ \A i \in 1..Len(chunks) :
          /\ metadata[i].chunk_id = chunks[i].chunk_id
          /\ metadata[i].source = chunks[i].source

\* an insert that went through appended its batch, in the order given, after
\* the entries already there
BatchAppended ==
    (call'.op = "insert" /\ call'.raised = "none" /\ ~call'.swallowed) =>
        /\ chunks' = chunks \o DocChunks(call'.n_chunks)
        /\ embeddings' = embeddings \o call'.vectors
        /\ Len(call'.vectors) = call'.n_chunks
        /\ SubSeq(metadata', 1, Len(metadata)) = metadata

\* C23: in every reachable state chunks, embeddings and metadata have equal
\* length and are aligned by index, and the entries are the inserted batches
\* in call order, each batch in its given order.
C23_ParallelSequencesAligned == []Aligned /\ [][BatchAppended]_vars

\* the second of two inserts put its vector, which differs from the first,
\* at index 2
C23_Witness ==
    /\ call.op = "insert"
    /\ call.n_chunks = 1
    /\ Len(chunks) = 2
    /\ call.vectors = <<embeddings[2]>>
    /\ embeddings[1] # embeddings[2]
    /\ metadata[2].chunk_id = chunks[2].chunk_id

(***************************************************************************)
(* Claims about what the reading operations leave alone, checked under     *)
(* SpecReads.                                                              *)
(***************************************************************************)
IsPrefix(s, t) == Len(s) <= Len(t) /\ SubSeq(t, 1, Len(s)) = s

ReadsLeaveStore ==
    call'.op \in {"search", "get_status"} =>
        /\ chunks' = chunks
        /\ embeddings' = embeddings
        /\ metadata' = metadata
        /\ disk' = disk

\* on one store object, that is on every step but the construction of a new
\* one, the number of entries changes by an insert or by a clear only
CountChangesByInsertOrClear ==
    (call'.op # "construct" /\ Len(chunks') # Len(chunks)) =>
        \/ /\ call'.op = "insert"
           /\ Len(chunks') = Len(chunks) + call'.n_chunks
           /\ IsPrefix(chunks, chunks')
           /\ IsPrefix(embeddings, embeddings')
           /\ IsPrefix(metadata, metadata')
        \/ /\ call'.op = "clear"
           /\ Len(chunks') = 0

\* C24: get_status and search_similar are read-only, they leave chunks,
\* embeddings, metadata and the file unchanged, so the entry count changes
\* only through insert_documents (grows by the batch size, the existing
\* entries kept as a prefix) and clear_database (drops to zero).
C24_ReadsAreReadOnly == [][ReadsLeaveStore /\ CountChangesByInsertOrClear]_vars

\* get_status has reported a store of two entries that has a file
C24_Witness ==
    /\ call.op = "get_status"
    /\ call.status.total_chunks = 2
    /\ call.status.total_embeddings = 2
    /\ Len(chunks) = 2
    /\ disk.kind # "none"

(***************************************************************************)
(* Claims about a failed run of process_all_documents, checked under       *)
(* SpecIngest.                                                             *)
(***************************************************************************)
\* the call came to the embedding loop and a batch came back empty: fewer
\* vectors than chunks, and no insert that raised for the count
BatchFailed ==
    /\ call'.op = "process_all_documents"
    /\ call'.raised = "none"
    /\ call'.n_chunks > 0
    /\ call'.n_embeddings < call'.n_chunks

\* C25: if embedding generation fails for any batch during
\* process_all_documents, the store ends the call holding the same entries,
\* in memory and in the file, as before the call, for force_reprocess False
\* and True alike.  The entries in the file are those a load gives.
C25_FailedBatchKeepsStore ==
    [][BatchFailed =>
          /\ chunks' = chunks
          /\ embeddings' = embeddings
          /\ metadata' = metadata
          /\ load_from_disk(disk') = load_from_disk(disk)]_vars

=============================================================================
